---- MODULE Spec2Model ----
(***************************************************************************)
(* Model of cartography/intel/aws/ec2/launch_templates.py: the sync of EC2 *)
(* launch templates and their versions into the graph.                     *)
(*                                                                         *)
(* Spec    : one run of sync_ec2_launch_templates, one step per call the   *)
(*           function makes (fetch, transform, load, cleanup).             *)
(* SpecFn  : the two transform functions applied to arbitrary bounded      *)
(*           template and version lists.                                   *)
(***************************************************************************)
EXTENDS Integers, Sequences, FiniteSets, TLC

VARIABLES
    regions,                  \* argument: list of region names
    current_aws_account_id,   \* argument
    update_tag,               \* argument
    common_job_parameters,    \* argument, handed to cleanup
    pc,                       \* position in sync_ec2_launch_templates
    region_idx,               \* position of the for loop in regions
    region,                   \* loop variable of line 197
    templates,                \* local of sync (line 201)
    versions,                 \* local of sync (line 202)
    transformed_templates,    \* local of sync (line 205)
    transformed_versions,     \* local of sync (line 215)
    t_idx,                    \* position of the loop of line 47
    template_versions,        \* local of get_launch_template_versions (line 46)
    last_by_template,         \* the last call of line 49: what paginate gave, what came back
    error,                    \* the exception that left sync, "" if none
    graph,                    \* the nodes in the graph
    trace,                    \* the calls sync has made so far, in order
    fetches,                  \* the calls of line 49 in the current call of line 202
    handed,                   \* the records given to load in the current iteration
    retrieved,                \* the templates a version was fetched for in this run
    loaded                    \* <<label, id>> of the records load has written in this run

vars == <<regions, current_aws_account_id, update_tag, common_job_parameters,
          pc, region_idx, region, templates, versions, transformed_templates,
          transformed_versions, t_idx, template_versions, last_by_template,
          error, graph, trace, fetches, handed, retrieved, loaded>>

-----------------------------------------------------------------------------
(* Bounds of the model *)

MaxRegions == 2
MaxTemplates == 2
MaxPages == 2
MaxVersions == 2
MaxAbsent == 1

-----------------------------------------------------------------------------
(* Python values. A value whose type matters is a tuple tagged by its type. *)

PyStr(s) == <<"str", s>>
PyInt(n) == <<"int", n>>
PyNone == <<"NoneType">>
\* a datetime, held as its POSIX time in half seconds
DateTime(h) == <<"datetime", h>>

Min(S) == CHOOSE x \in S : \A y \in S : x <= y
SeqsUpTo(S, n) == UNION {[1..k -> S] : k \in 0..n}
NoDupSeqsUpTo(S, n) == {s \in SeqsUpTo(S, n) : \A i, j \in DOMAIN s : s[i] = s[j] => i = j}

\* d[k] = v
DictSet(d, k, v) == [x \in DOMAIN d \cup {k} |-> IF x = k THEN v ELSE d[x]]
\* d.get(k)
DictGet(d, k) == IF k \in DOMAIN d THEN d[k] ELSE PyNone
\* d.copy(): a new dict with the same items; writes to it do not reach d
DictCopy(d) == d

\* int(dt.timestamp()): truncation toward zero of the POSIX time in seconds
IntTimestamp(dt) == IF dt[2] >= 0 THEN dt[2] \div 2 ELSE -((-dt[2]) \div 2)
\* str(int(dt.timestamp()))
TimestampString(dt) == PyStr(ToString(IntTimestamp(dt)))

-----------------------------------------------------------------------------
(* The fields line 132-146 read from LaunchTemplateData *)

TrackedFieldSeq ==
    <<"KernelId", "EbsOptimized", "IamInstanceProfileArn", "IamInstanceProfileName",
      "ImageId", "InstanceType", "KeyName", "MonitoringEnabled", "RamdiskId",
      "DisableApiTermination", "InstanceInitiatedShutDownBehavior",
      "SecurityGroupIds", "SecurityGroups">>
TrackedFields == {TrackedFieldSeq[i] : i \in DOMAIN TrackedFieldSeq}

-----------------------------------------------------------------------------
(* get_launch_template_versions_by_template, lines 59-82 *)

NotFound == "InvalidLaunchTemplateId.NotFound"
ErrorCodes == {NotFound, "InternalError"}

\* What paginate() yields: pages, ended or not by a botocore ClientError.
Page(vs) == [kind |-> "page", Code |-> "", LaunchTemplateVersions |-> vs]
ClientError(code) == [kind |-> "ClientError", Code |-> code, LaunchTemplateVersions |-> <<>>]

Returned(value, warned) == [raised |-> "", warned |-> warned, value |-> value]
Raised(code) == [raised |-> code, warned |-> FALSE, value |-> <<>>]

RECURSIVE PaginateLoop(_, _, _)
\* lines 69-82: the for loop inside the try, the except clause and the return
PaginateLoop(response, i, acc) ==
    IF i > Len(response)
    THEN Returned(acc, FALSE)
    ELSE IF response[i].kind = "page"
    THEN PaginateLoop(response, i + 1, acc \o response[i].LaunchTemplateVersions)
    ELSE IF response[i].Code = NotFound
    THEN Returned(acc, TRUE)
    ELSE Raised(response[i].Code)

get_launch_template_versions_by_template(response) ==
    PaginateLoop(response, 1, <<>>)

-----------------------------------------------------------------------------
(* transform_launch_templates, lines 85-98.  The result names the list the  *)
(* caller passed as it is after the call, beside the list returned.         *)

IdsOf(records) == {records[i].LaunchTemplateId : i \in DOMAIN records}

RECURSIVE TransformTemplatesLoop(_, _, _, _)
TransformTemplatesLoop(tmpls, valid_template_ids, i, result) ==
    IF i > Len(tmpls)
    THEN [templates |-> tmpls, result |-> result]
    ELSE LET template == tmpls[i]
         IN  IF template.LaunchTemplateId \notin valid_template_ids
             THEN TransformTemplatesLoop(tmpls, valid_template_ids, i + 1, result)
             ELSE LET current == DictSet(DictCopy(template), "CreateTime",
                                         TimestampString(template.CreateTime))
                  IN  TransformTemplatesLoop(tmpls, valid_template_ids, i + 1,
                                             Append(result, current))

\* without line 91-92: every template is kept
transform_launch_templates_nofilter(tmpls, vers) ==
    [templates |-> tmpls, versions |-> vers,
     result |-> TransformTemplatesLoop(tmpls, IdsOf(tmpls), 1, <<>>).result]

\* with the test of line 91 inverted
transform_launch_templates_inverted(tmpls, vers) ==
    [templates |-> tmpls, versions |-> vers,
     result |-> TransformTemplatesLoop(tmpls, IdsOf(tmpls) \ IdsOf(vers), 1, <<>>).result]

\* with "current = template" on line 94: the writes reach the caller's records
transform_launch_templates_nocopy(tmpls, vers) ==
    LET r == TransformTemplatesLoop(tmpls, IdsOf(vers), 1, <<>>)
    IN  [templates |-> [i \in DOMAIN tmpls |->
                           IF tmpls[i].LaunchTemplateId \in IdsOf(vers)
                           THEN DictSet(tmpls[i], "CreateTime",
                                        TimestampString(tmpls[i].CreateTime))
                           ELSE tmpls[i]],
         versions |-> vers,
         result |-> r.result]

\* line 88, then the loop of lines 90-97; versions is only read
transform_launch_templates(tmpls, vers) ==
    LET valid_template_ids == IdsOf(vers)
        r == TransformTemplatesLoop(tmpls, valid_template_ids, 1, <<>>)
    IN  [templates |-> r.templates, versions |-> vers, result |-> r.result]

-----------------------------------------------------------------------------
(* transform_launch_template_versions, lines 119-148 *)

\* ltd.get(k, ""): a default in place of None
DictGetDefault(d, k) == IF k \in DOMAIN d THEN d[k] ELSE PyStr("")

\* ltd.get(k), lines 132-146
LtdGet(ltd, k) == DictGet(ltd, k)

\* lines 124-146 for one version
TransformVersion(version) ==
    LET ltd == version.LaunchTemplateData
        c0  == DictCopy(version)
        c1  == DictSet(c0, "Id", version.LaunchTemplateId \o "-"
                                  \o ToString(version.VersionNumber))
        c2  == DictSet(c1, "CreateTime", TimestampString(version.CreateTime))
        c3  == DictSet(c2, "KernelId", LtdGet(ltd, "KernelId"))
        c4  == DictSet(c3, "EbsOptimized", LtdGet(ltd, "EbsOptimized"))
        c5  == DictSet(c4, "IamInstanceProfileArn", LtdGet(ltd, "IamInstanceProfileArn"))
        c6  == DictSet(c5, "IamInstanceProfileName", LtdGet(ltd, "IamInstanceProfileName"))
        c7  == DictSet(c6, "ImageId", LtdGet(ltd, "ImageId"))
        c8  == DictSet(c7, "InstanceType", LtdGet(ltd, "InstanceType"))
        c9  == DictSet(c8, "KeyName", LtdGet(ltd, "KeyName"))
        c10 == DictSet(c9, "MonitoringEnabled", LtdGet(ltd, "MonitoringEnabled"))
        c11 == DictSet(c10, "RamdiskId", LtdGet(ltd, "RamdiskId"))
        c12 == DictSet(c11, "DisableApiTermination", LtdGet(ltd, "DisableApiTermination"))
        c13 == DictSet(c12, "InstanceInitiatedShutDownBehavior",
                       LtdGet(ltd, "InstanceInitiatedShutDownBehavior"))
        c14 == DictSet(c13, "SecurityGroupIds", LtdGet(ltd, "SecurityGroupIds"))
        c15 == DictSet(c14, "SecurityGroups", LtdGet(ltd, "SecurityGroups"))
    IN  c15

RECURSIVE TransformVersionsLoop(_, _, _)
TransformVersionsLoop(vers, i, result) ==
    IF i > Len(vers)
    THEN [versions |-> vers, result |-> result]
    ELSE TransformVersionsLoop(vers, i + 1, Append(result, TransformVersion(vers[i])))

transform_launch_template_versions(vers) ==
    TransformVersionsLoop(vers, 1, <<>>)

-----------------------------------------------------------------------------
(* The EC2 API as the fetch functions see it *)

RegionNames == {"us-east-1", "eu-west-1"}
TemplateIds == {"lt-1", "lt-2"}

FullData == [f \in TrackedFields |-> PyStr("val-" \o f)]
PartialData == [f \in {"ImageId", "InstanceType"} |-> PyStr("val-" \o f)]

\* describe_launch_templates: one record per template of the region
SourceTemplate(id) ==
    [LaunchTemplateId |-> id,
     LaunchTemplateName |-> "name-" \o id,
     CreateTime |-> DateTime(IF id = "lt-1" THEN 3 ELSE -1)]

\* describe_launch_template_versions(LaunchTemplateId=id): versions of that template
SourceVersion(id, n) ==
    [LaunchTemplateId |-> id,
     VersionNumber |-> n,
     CreateTime |-> DateTime(2 * n + 1),
     LaunchTemplateData |-> IF n = 1 THEN FullData ELSE PartialData]

\* get_launch_templates, lines 24-36: every page drained, or the ClientError
DescribeLaunchTemplatesOutcomes ==
    {Returned([i \in DOMAIN ids |-> SourceTemplate(ids[i])], FALSE) :
        ids \in NoDupSeqsUpTo(TemplateIds, MaxTemplates)}
    \cup {Raised(code) : code \in ErrorCodes}

\* the pages paginate(LaunchTemplateId=id) may yield: page k holds version k
OkPages(id, k) ==
    IF k = 0 THEN <<Page(<<>>)>> ELSE [j \in 1..k |-> Page(<<SourceVersion(id, j)>>)]
PaginateResponses(id) ==
    {OkPages(id, k) : k \in 0..MaxPages}
    \cup {(IF k = 0 THEN <<>> ELSE OkPages(id, k)) \o <<ClientError(code)>> :
            k \in 0..(MaxPages - 1), code \in ErrorCodes}

-----------------------------------------------------------------------------
(* The graph behind load (cartography.client.core.tx) and GraphJob *)

TemplateLabel == "LaunchTemplate"
VersionLabel == "LaunchTemplateVersion"

Node(label, id, template_id, reg, account, tag) ==
    [label |-> label, id |-> id, LaunchTemplateId |-> template_id,
     Region |-> reg, AWS_ID |-> account, lastupdated |-> tag]

\* the identity field of each schema: LaunchTemplateId, and Id for a version
NodeId(label, rec) == IF label = TemplateLabel THEN rec.LaunchTemplateId ELSE rec.Id

\* load(session, schema, data, Region=, AWS_ID=, lastupdated=): one node per
\* identity, created or updated with the metadata of this call
GraphLoad(g, label, data, reg, account, tag) ==
    LET new == {Node(label, NodeId(label, data[i]), data[i].LaunchTemplateId,
                     reg, account, tag) : i \in DOMAIN data}
    IN  {n \in g : ~ \E m \in new : m.label = n.label /\ m.id = n.id} \cup new

\* GraphJob.from_node_schema(schema, params).run(session): the nodes of the type
\* under the account of params whose lastupdated is not params.UPDATE_TAG go
GraphCleanup(g, label, params) ==
    {n \in g : ~ (n.label = label /\ n.AWS_ID = params.AWS_ID
                  /\ n.lastupdated # params.UPDATE_TAG)}

UpdateTags == {2, 3}
AccountId == "111111111111"
OtherAccountId == "222222222222"

\* what earlier runs left in the graph
OldTag == Min(UpdateTags) - 1
PriorGraph ==
    {Node(TemplateLabel, "lt-1", "lt-1", "us-east-1", AccountId, OldTag),
     Node(VersionLabel, "lt-1-1", "lt-1", "us-east-1", AccountId, OldTag),
     Node(VersionLabel, "lt-1-9", "lt-1", "us-east-1", AccountId, OldTag),
     Node(TemplateLabel, "lt-2", "lt-2", "eu-west-1", AccountId, OldTag),
     Node(VersionLabel, "lt-2-1", "lt-2", "eu-west-1", AccountId, OldTag),
     Node(TemplateLabel, "lt-7", "lt-7", "us-east-1", OtherAccountId, OldTag),
     Node(VersionLabel, "lt-7-1", "lt-7", "us-east-1", OtherAccountId, OldTag)}

-----------------------------------------------------------------------------
(* load_launch_templates (102-116), load_launch_template_versions (151-166): *)
(* the call each makes to load                                               *)

LoadArgs(label, data, reg, account, tag) ==
    [label |-> label, data |-> data, Region |-> reg, AWS_ID |-> account,
     lastupdated |-> tag]

\* with Region= and AWS_ID= given each other's value
load_launch_templates_swapped(data, reg, account, tag) ==
    LoadArgs(TemplateLabel, data, account, reg, tag)

load_launch_templates(data, reg, account, tag) ==
    LoadArgs(TemplateLabel, data, reg, account, tag)

load_launch_template_versions(data, reg, account, tag) ==
    LoadArgs(VersionLabel, data, reg, account, tag)

\* the schemas cleanup runs a job for, in order (lines 176 and 182)
CleanupSchemasTemplateTwice == <<TemplateLabel, TemplateLabel>>
CleanupSchemas == <<TemplateLabel, VersionLabel>>

\* @aws_handle_regions and @timeit (cartography.util) around the three fetch
\* functions: what the function returns is returned, what it raises is raised
aws_handle_regions(outcome) == outcome

-----------------------------------------------------------------------------
(* sync_ec2_launch_templates, lines 189-224 *)

\* a for loop that leaves before the last region
LoopHeadSkipsLast(idx, regs) ==
    IF idx < Len(regs) - 1 THEN "get_launch_templates" ELSE "cleanup"

\* line 197: the next region, or line 224 once the list is exhausted
LoopHead(idx, regs) ==
    IF idx < Len(regs) THEN "get_launch_templates" ELSE "cleanup"

\* the body with the version load ahead of the template load
RegionBodyVersionsFirst ==
    <<"get_launch_templates", "get_launch_template_versions",
      "transform_launch_template_versions", "load_launch_template_versions",
      "transform_launch_templates", "load_launch_templates">>

\* the statements of the loop body in order (lines 201, 202, 205, 206, 215, 216)
RegionBody ==
    <<"get_launch_templates", "get_launch_template_versions",
      "transform_launch_templates", "load_launch_templates",
      "transform_launch_template_versions", "load_launch_template_versions">>

\* the statement after `step`: the next of the body, or back to line 197
StepAfter(step) ==
    LET i == CHOOSE j \in DOMAIN RegionBody : RegionBody[j] = step
    IN  IF i < Len(RegionBody) THEN RegionBody[i + 1] ELSE "for_region"

\* an except clause around the body that goes on with the next region
SwallowAndContinue(code) == [pc |-> "for_region", error |-> ""]

\* nothing in sync catches: an exception leaves the function
Propagate(code) == [pc |-> "aborted", error |-> code]

\* a call sync made: the function, the iteration, the arguments, the exception
Call(op, reg, target, account, tag, raised) ==
    [op |-> op, idx |-> region_idx, Region |-> reg, target |-> target,
     AWS_ID |-> account, lastupdated |-> tag, raised |-> raised]

NoCall == [called |-> FALSE, response |-> <<>>, result |-> Returned(<<>>, FALSE)]
NothingHanded == [templates |-> <<>>, versions |-> <<>>]
LaunchTemplateIds(records) == [i \in DOMAIN records |-> records[i].LaunchTemplateId]

Init ==
    /\ regions \in SeqsUpTo(RegionNames, MaxRegions)
    /\ current_aws_account_id = AccountId
    /\ update_tag \in UpdateTags
    /\ common_job_parameters = [UPDATE_TAG |-> update_tag, AWS_ID |-> current_aws_account_id]
    /\ pc = "for_region"
    /\ region_idx = 0
    /\ region = ""
    /\ templates = <<>>
    /\ versions = <<>>
    /\ transformed_templates = <<>>
    /\ transformed_versions = <<>>
    /\ t_idx = 0
    /\ template_versions = <<>>
    /\ last_by_template = NoCall
    /\ error = ""
    /\ graph = PriorGraph
    /\ trace = <<>>
    /\ fetches = <<>>
    /\ handed = NothingHanded
    /\ retrieved = {}
    /\ loaded = {}

args == <<regions, current_aws_account_id, update_tag, common_job_parameters>>
locals == <<templates, versions, transformed_templates, transformed_versions>>
inner == <<t_idx, template_versions, last_by_template, fetches>>

\* line 197.  The locals of the last iteration are rebound before they are read
\* again: the values they still hold are dropped here.
ForRegion ==
    /\ pc = "for_region"
    /\ IF LoopHead(region_idx, regions) = "cleanup"
       THEN /\ pc' = "cleanup_templates"
            /\ UNCHANGED <<region_idx, region, locals, inner, handed>>
       ELSE /\ region_idx < Len(regions)
            /\ region_idx' = region_idx + 1
            /\ region' = regions[region_idx + 1]
            /\ pc' = RegionBody[1]
            /\ templates' = <<>>
            /\ versions' = <<>>
            /\ transformed_templates' = <<>>
            /\ transformed_versions' = <<>>
            /\ t_idx' = 0
            /\ template_versions' = <<>>
            /\ last_by_template' = NoCall
            /\ fetches' = <<>>
            /\ handed' = NothingHanded
    /\ UNCHANGED <<args, error, graph, trace, retrieved, loaded>>

\* line 201
GetLaunchTemplates ==
    /\ pc = "get_launch_templates"
    /\ \E described \in DescribeLaunchTemplatesOutcomes :
        LET out == aws_handle_regions(described)
        IN
          /\ trace' = Append(trace, Call("get_launch_templates", region, "", "", 0,
                                         out.raised))
          /\ IF out.raised # ""
             THEN /\ pc' = Propagate(out.raised).pc
                  /\ error' = Propagate(out.raised).error
                  /\ UNCHANGED templates
             ELSE /\ templates' = out.value
                  /\ pc' = StepAfter("get_launch_templates")
                  /\ error' = error
    /\ UNCHANGED <<args, region_idx, region, versions, transformed_templates,
                   transformed_versions, inner, graph, handed, retrieved, loaded>>

\* line 202 entering get_launch_template_versions: line 46
GetLaunchTemplateVersionsEnter ==
    /\ pc = "get_launch_template_versions"
    /\ t_idx = 0
    /\ t_idx' = 1
    /\ template_versions' = <<>>
    /\ fetches' = <<>>
    /\ UNCHANGED <<args, pc, region_idx, region, locals, last_by_template, error,
                   graph, trace, handed, retrieved, loaded>>

\* lines 47-52: one template of the loop
GetLaunchTemplateVersionsStep ==
    /\ pc = "get_launch_template_versions"
    /\ t_idx >= 1
    /\ t_idx <= Len(templates)
    /\ LET launch_template_id == templates[t_idx].LaunchTemplateId
       IN  \E response \in PaginateResponses(launch_template_id) :
             LET r == aws_handle_regions(get_launch_template_versions_by_template(response))
             IN  /\ last_by_template' = [called |-> TRUE, response |-> response, result |-> r]
                 /\ fetches' = Append(fetches, launch_template_id)
                 /\ retrieved' = retrieved \cup IdsOf(r.value)
                 /\ IF r.raised # ""
                    THEN /\ trace' = Append(trace, Call("get_launch_template_versions",
                                                        region, "", "", 0, r.raised))
                         /\ pc' = Propagate(r.raised).pc
                         /\ error' = Propagate(r.raised).error
                         /\ UNCHANGED <<t_idx, template_versions>>
                    ELSE /\ template_versions' = template_versions \o r.value
                         /\ t_idx' = t_idx + 1
                         /\ UNCHANGED <<pc, error, trace>>
    /\ UNCHANGED <<args, region_idx, region, locals, graph, handed, loaded>>

\* line 54 and the assignment of line 202
GetLaunchTemplateVersionsReturn ==
    /\ pc = "get_launch_template_versions"
    /\ t_idx > Len(templates)
    /\ versions' = template_versions
    /\ t_idx' = 0
    /\ trace' = Append(trace, Call("get_launch_template_versions", region, "", "", 0, ""))
    /\ pc' = StepAfter("get_launch_template_versions")
    /\ last_by_template' = NoCall
    /\ UNCHANGED <<args, region_idx, region, templates, transformed_templates,
                   transformed_versions, template_versions, fetches,
                   error, graph, handed, retrieved, loaded>>

\* line 205
TransformLaunchTemplates ==
    /\ pc = "transform_launch_templates"
    /\ LET r == transform_launch_templates(templates, versions)
       IN  /\ templates' = r.templates
           /\ versions' = r.versions
           /\ transformed_templates' = r.result
    /\ pc' = StepAfter("transform_launch_templates")
    /\ UNCHANGED <<args, region_idx, region, transformed_versions, inner, error,
                   graph, trace, handed, retrieved, loaded>>

\* lines 206-212
LoadLaunchTemplates ==
    /\ pc = "load_launch_templates"
    /\ LET c == load_launch_templates(transformed_templates, region,
                                      current_aws_account_id, update_tag)
       IN  \E raised \in {"", "Neo4jError"} :
             /\ trace' = Append(trace, Call("load_launch_templates", c.Region, c.label,
                                            c.AWS_ID, c.lastupdated, raised))
             /\ handed' = [handed EXCEPT !.templates = @ \o LaunchTemplateIds(c.data)]
             /\ IF raised # ""
                THEN /\ pc' = Propagate(raised).pc
                     /\ error' = Propagate(raised).error
                     /\ UNCHANGED <<graph, loaded>>
                ELSE /\ graph' = GraphLoad(graph, c.label, c.data, c.Region, c.AWS_ID,
                                           c.lastupdated)
                     /\ loaded' = loaded \cup {<<c.label, NodeId(c.label, c.data[i])>> :
                                                   i \in DOMAIN c.data}
                     /\ pc' = StepAfter("load_launch_templates")
                     /\ error' = error
    /\ UNCHANGED <<args, region_idx, region, locals, inner, retrieved>>

\* line 215
TransformLaunchTemplateVersions ==
    /\ pc = "transform_launch_template_versions"
    /\ LET r == transform_launch_template_versions(versions)
       IN  /\ versions' = r.versions
           /\ transformed_versions' = r.result
    /\ pc' = StepAfter("transform_launch_template_versions")
    /\ UNCHANGED <<args, region_idx, region, templates, transformed_templates, inner,
                   error, graph, trace, handed, retrieved, loaded>>

\* lines 216-222
LoadLaunchTemplateVersions ==
    /\ pc = "load_launch_template_versions"
    /\ LET c == load_launch_template_versions(transformed_versions, region,
                                              current_aws_account_id, update_tag)
       IN  \E raised \in {"", "Neo4jError"} :
             /\ trace' = Append(trace, Call("load_launch_template_versions", c.Region,
                                            c.label, c.AWS_ID, c.lastupdated, raised))
             /\ handed' = [handed EXCEPT !.versions = @ \o LaunchTemplateIds(c.data)]
             /\ IF raised # ""
                THEN /\ pc' = Propagate(raised).pc
                     /\ error' = Propagate(raised).error
                     /\ UNCHANGED <<graph, loaded>>
                ELSE /\ graph' = GraphLoad(graph, c.label, c.data, c.Region, c.AWS_ID,
                                           c.lastupdated)
                     /\ loaded' = loaded \cup {<<c.label, NodeId(c.label, c.data[i])>> :
                                                   i \in DOMAIN c.data}
                     /\ pc' = StepAfter("load_launch_template_versions")
                     /\ error' = error
    /\ UNCHANGED <<args, region_idx, region, locals, inner, retrieved>>

\* line 224 into cleanup: lines 175-179
CleanupTemplates ==
    /\ pc = "cleanup_templates"
    /\ \E raised \in {"", "Neo4jError"} :
          /\ trace' = Append(trace, Call("cleanup", "", CleanupSchemas[1],
                                         common_job_parameters.AWS_ID,
                                         common_job_parameters.UPDATE_TAG, raised))
          /\ IF raised # ""
             THEN /\ pc' = "aborted"
                  /\ error' = raised
                  /\ UNCHANGED graph
             ELSE /\ graph' = GraphCleanup(graph, CleanupSchemas[1], common_job_parameters)
                  /\ pc' = "cleanup_versions"
                  /\ error' = error
    /\ UNCHANGED <<args, region_idx, region, locals, inner, handed, retrieved, loaded>>

\* lines 181-185
CleanupVersions ==
    /\ pc = "cleanup_versions"
    /\ \E raised \in {"", "Neo4jError"} :
          /\ trace' = Append(trace, Call("cleanup", "", CleanupSchemas[2],
                                         common_job_parameters.AWS_ID,
                                         common_job_parameters.UPDATE_TAG, raised))
          /\ IF raised # ""
             THEN /\ pc' = "aborted"
                  /\ error' = raised
                  /\ UNCHANGED graph
             ELSE /\ graph' = GraphCleanup(graph, CleanupSchemas[2], common_job_parameters)
                  /\ pc' = "done"
                  /\ error' = error
    /\ UNCHANGED <<args, region_idx, region, locals, inner, handed, retrieved, loaded>>

Next ==
    \/ ForRegion
    \/ GetLaunchTemplates
    \/ GetLaunchTemplateVersionsEnter
    \/ GetLaunchTemplateVersionsStep
    \/ GetLaunchTemplateVersionsReturn
    \/ TransformLaunchTemplates
    \/ LoadLaunchTemplates
    \/ TransformLaunchTemplateVersions
    \/ LoadLaunchTemplateVersions
    \/ CleanupTemplates
    \/ CleanupVersions

Spec == Init /\ [][Next]_vars

-----------------------------------------------------------------------------
(* SpecFn: lines 205 and 215 on arbitrary template and version lists *)

FnTemplateRecords ==
    {[LaunchTemplateId |-> id, LaunchTemplateName |-> name, CreateTime |-> DateTime(3)] :
        id \in TemplateIds, name \in {"web", "batch"}}

\* the version data of a version: the fields of `present`, valued by `variant`
FieldValue(f, variant) ==
    CASE variant = "distinct" -> PyStr("val-" \o f)
      [] variant = "empty" -> PyStr("")
      [] variant = "zero" -> PyInt(0)
VersionData(present, variant) == [f \in present |-> FieldValue(f, variant)]

FnVersion(id, n, h, data) ==
    [LaunchTemplateId |-> id, VersionNumber |-> n, CreateTime |-> DateTime(h),
     LaunchTemplateData |-> data]

\* versions of the templates and of a template no list holds
FnVersionRecords ==
    {FnVersion(id, 1, 3, data) :
        id \in TemplateIds \cup {"lt-9"},
        data \in {VersionData({}, "distinct"), VersionData({"ImageId", "KeyName"}, "distinct")}}

\* version data with up to MaxAbsent tracked fields absent, or present
FewFields == {S \in SUBSET TrackedFields : Cardinality(S) <= MaxAbsent}
FnRichVersionRecords ==
    {FnVersion("lt-1", n, h, VersionData(present, variant)) :
        n \in {1, 2}, h \in {3, -1},
        present \in FewFields \cup {TrackedFields \ S : S \in FewFields},
        variant \in {"distinct", "empty", "zero"}}

InitFn ==
    /\ regions = <<>>
    /\ current_aws_account_id = AccountId
    /\ update_tag \in UpdateTags
    /\ common_job_parameters = [UPDATE_TAG |-> update_tag, AWS_ID |-> current_aws_account_id]
    /\ pc = "fn_start"
    /\ region_idx = 0
    /\ region = ""
    /\ \/ /\ templates \in SeqsUpTo(FnTemplateRecords, MaxTemplates)
          /\ versions \in SeqsUpTo(FnVersionRecords, MaxVersions)
       \/ /\ templates = <<>>
          /\ versions \in {<<v>> : v \in FnRichVersionRecords}
    /\ transformed_templates = <<>>
    /\ transformed_versions = <<>>
    /\ t_idx = 0
    /\ template_versions = versions
    /\ last_by_template = NoCall
    /\ error = ""
    /\ graph = {}
    /\ trace = <<>>
    /\ fetches = <<>>
    /\ handed = NothingHanded
    /\ retrieved = {}
    /\ loaded = {}

\* line 205
FnTransformLaunchTemplates ==
    /\ pc = "fn_start"
    /\ LET r == transform_launch_templates(templates, versions)
       IN  /\ templates' = r.templates
           /\ versions' = r.versions
           /\ transformed_templates' = r.result
    /\ pc' = "fn_templates"
    /\ UNCHANGED <<args, region_idx, region, transformed_versions, inner, error,
                   graph, trace, handed, retrieved, loaded>>

\* line 215
FnTransformLaunchTemplateVersions ==
    /\ pc = "fn_templates"
    /\ LET r == transform_launch_template_versions(versions)
       IN  /\ versions' = r.versions
           /\ transformed_versions' = r.result
    /\ pc' = "fn_done"
    /\ UNCHANGED <<args, region_idx, region, templates, transformed_templates, inner,
                   error, graph, trace, handed, retrieved, loaded>>

NextFn ==
    \/ FnTransformLaunchTemplates
    \/ FnTransformLaunchTemplateVersions

SpecFn == InitFn /\ [][NextFn]_vars

-----------------------------------------------------------------------------
(* Properties *)

Loads == {"load_launch_templates", "load_launch_template_versions"}
Fetches == {"get_launch_templates", "get_launch_template_versions"}
RangeOf(f) == {f[i] : i \in DOMAIN f}

\* a call of `op` in iteration k that returned, before position j of the trace
ReturnedBefore(op, k, j) ==
    \E i \in 1..(j - 1) : trace[i].op = op /\ trace[i].idx = k /\ trace[i].raised = ""

CleanupCalls(label) == {j \in DOMAIN trace : trace[j].op = "cleanup" /\ trace[j].target = label}

\* C1: cleanup is called only once the template load and the version load of
\* every region of the list have returned, no fetch or load follows a cleanup
\* call, and a run that completes has called it exactly once for each of the
\* two node types.
CleanupAfterAllRegions ==
    /\ \A j \in DOMAIN trace :
          trace[j].op = "cleanup" =>
             /\ \A k \in 1..Len(regions) :
                   /\ ReturnedBefore("load_launch_templates", k, j)
                   /\ ReturnedBefore("load_launch_template_versions", k, j)
             /\ \A i \in DOMAIN trace : i > j => trace[i].op = "cleanup"
    /\ pc = "done" =>
          /\ Cardinality(CleanupCalls(TemplateLabel)) = 1
          /\ Cardinality(CleanupCalls(VersionLabel)) = 1

CleanupAfterAllRegionsWitness ==
    /\ pc = "done"
    /\ Len(regions) = 2
    /\ loaded # {}

\* C2: every version record given to the loader in an iteration carries the
\* LaunchTemplateId of a template record given to the loader in the same
\* iteration, at every point of the run and after an abort.
VersionsHaveTheirTemplate ==
    \A i \in DOMAIN handed.versions :
        \E j \in DOMAIN handed.templates : handed.templates[j] = handed.versions[i]

VersionsHaveTheirTemplateWitness ==
    /\ pc = "aborted"
    /\ Len(templates) = 2
    /\ Len(handed.templates) = 1
    /\ Len(handed.versions) >= 1

\* C3: a fetch or load that raises is the last call of the run: the run is
\* aborted with that exception, no cleanup has been called, and every record
\* loaded before is in the graph with the tag of this run.
AbortOnError ==
    \A i \in DOMAIN trace :
        (trace[i].raised # "" /\ trace[i].op \in Fetches \cup Loads) =>
            /\ i = Len(trace)
            /\ pc = "aborted"
            /\ error = trace[i].raised
            /\ \A j \in DOMAIN trace : trace[j].op # "cleanup"
            /\ \A l \in loaded :
                  \E n \in graph : /\ n.label = l[1]
                                   /\ n.id = l[2]
                                   /\ n.lastupdated = update_tag

AbortOnErrorWitness ==
    /\ pc = "aborted"
    /\ Len(regions) = 2
    /\ region_idx = 1
    /\ trace[Len(trace)].op = "load_launch_template_versions"
    /\ loaded # {}

\* C4: when paginate ends in InvalidLaunchTemplateId.NotFound, on whatever page,
\* get_launch_template_versions_by_template returns an empty list and does not
\* raise; when it ends in another ClientError, the function raises that error.
NotFoundGivesEmptyList ==
    last_by_template.called =>
        \A i \in DOMAIN last_by_template.response :
            LET e == last_by_template.response[i]
                r == last_by_template.result
            IN  /\ (e.kind = "ClientError" /\ e.Code = NotFound) =>
                      (r.raised = "" /\ r.value = <<>>)
                /\ (e.kind = "ClientError" /\ e.Code # NotFound) => r.raised = e.Code

SameButCreateTime(out, in) ==
    /\ DOMAIN out = DOMAIN in
    /\ \A k \in DOMAIN in \ {"CreateTime"} : out[k] = in[k]

\* C5: transform_launch_templates returns the templates whose LaunchTemplateId
\* is that of some version, in the order and number in which the template list
\* holds them, and no other.
OrphanFiltering ==
    pc \in {"fn_templates", "fn_done"} =>
        LET HasVersion(t) == \E i \in DOMAIN versions :
                                versions[i].LaunchTemplateId = t.LaunchTemplateId
            expected == SelectSeq(templates, HasVersion)
        IN  /\ Len(transformed_templates) = Len(expected)
            /\ \A i \in DOMAIN expected :
                  SameButCreateTime(transformed_templates[i], expected[i])

OrphanFilteringWitness ==
    /\ pc = "fn_templates"
    /\ Len(templates) = 2
    /\ Len(transformed_templates) = 1
    /\ transformed_templates[1].LaunchTemplateId = templates[2].LaunchTemplateId
    /\ \E i \in DOMAIN versions : versions[i].LaunchTemplateId = "lt-9"

\* C6: once a run has completed, a template of this account left by an earlier
\* run under another tag, for which this run fetched no version (the source no
\* longer returns it, or returns it with no version to fetch), is gone from the
\* graph together with its versions, and every record loaded in this run is
\* in the graph with the tag of this run.
CleanupScoping ==
    pc = "done" =>
        /\ \A n \in PriorGraph :
              (/\ n.label = TemplateLabel
               /\ n.AWS_ID = current_aws_account_id
               /\ n.lastupdated # update_tag
               /\ n.id \notin retrieved) =>
                  ~ \E m \in graph : /\ m.AWS_ID = current_aws_account_id
                                     /\ m.LaunchTemplateId = n.id
        /\ \A l \in loaded :
              \E m \in graph : m.label = l[1] /\ m.id = l[2] /\ m.lastupdated = update_tag

CleanupScopingWitness ==
    /\ pc = "done"
    /\ "lt-1" \in RangeOf(fetches)
    /\ "lt-1" \notin retrieved
    /\ "lt-2" \in retrieved
    /\ <<VersionLabel, "lt-2-1">> \in loaded

\* C7: every load call of the run passes the update tag and the account id the
\* run was started with, and as region the region of its iteration, the one
\* the fetches of that iteration were made with.
UniformLoadArguments ==
    \A i \in DOMAIN trace :
        trace[i].op \in Loads =>
            /\ trace[i].lastupdated = update_tag
            /\ trace[i].AWS_ID = current_aws_account_id
            /\ trace[i].idx \in DOMAIN regions
            /\ trace[i].Region = regions[trace[i].idx]
            /\ \A j \in 1..(i - 1) :
                  (trace[j].op \in Fetches /\ trace[j].idx = trace[i].idx) =>
                      trace[j].Region = trace[i].Region

UniformLoadArgumentsWitness ==
    /\ pc = "done"
    /\ Len(regions) = 2
    /\ regions[1] # regions[2]
    /\ \E i \in DOMAIN trace : trace[i].op = "load_launch_template_versions" /\ trace[i].idx = 2

\* C8: each tracked field that the LaunchTemplateData of a version holds is an
\* attribute of the transformed record with the same value, and each tracked
\* field it does not hold is None there, whatever the other fields are.
FieldFlattening ==
    pc = "fn_done" =>
        /\ Len(transformed_versions) = Len(versions)
        /\ \A i \in DOMAIN versions : \A f \in TrackedFields :
              LET ltd == versions[i].LaunchTemplateData
                  out == transformed_versions[i]
              IN  /\ f \in DOMAIN out
                  /\ f \in DOMAIN ltd => out[f] = ltd[f]
                  /\ f \notin DOMAIN ltd => out[f] = PyNone

FieldFlatteningWitness ==
    /\ pc = "fn_done"
    /\ Len(versions) = 1
    /\ DOMAIN versions[1].LaunchTemplateData = TrackedFields \ {"KernelId"}
    /\ versions[1].LaunchTemplateData["ImageId"] = PyStr("")
    /\ transformed_versions[1]["KernelId"] = PyNone
    /\ transformed_versions[1]["ImageId"] = PyStr("")

Rank(op) ==
    CASE op = "get_launch_templates" -> 1
      [] op = "get_launch_template_versions" -> 2
      [] op = "load_launch_templates" -> 3
      [] op = "load_launch_template_versions" -> 4
      [] OTHER -> 5

\* C9: the calls of a run come region by region in the order of the list, and
\* in a region in the order get_launch_templates, get_launch_template_versions,
\* load_launch_templates, load_launch_template_versions, each once; a region
\* starts only after the version load of the region before it has returned; the
\* versions are fetched template by template in the order of the template list.
RegionOrder ==
    /\ \A j \in DOMAIN trace :
          trace[j].op # "cleanup" =>
             /\ trace[j].idx \in DOMAIN regions
             /\ trace[j].Region = regions[trace[j].idx]
             /\ trace[j].idx > 1 =>
                   ReturnedBefore("load_launch_template_versions", trace[j].idx - 1, j)
             /\ \A i \in 1..(j - 1) :
                   \/ trace[i].idx < trace[j].idx
                   \/ trace[i].idx = trace[j].idx /\ Rank(trace[i].op) < Rank(trace[j].op)
             /\ \A r \in 1..(Rank(trace[j].op) - 1) :
                   \E i \in 1..(j - 1) : /\ trace[i].idx = trace[j].idx
                                         /\ Rank(trace[i].op) = r
                                         /\ trace[i].raised = ""
    /\ Len(fetches) <= Len(templates)
    /\ \A i \in DOMAIN fetches : fetches[i] = templates[i].LaunchTemplateId
    /\ (\E j \in DOMAIN trace : /\ trace[j].op = "get_launch_template_versions"
                                /\ trace[j].idx = region_idx
                                /\ trace[j].raised = "") => Len(fetches) = Len(templates)

RegionOrderWitness ==
    /\ pc = "done"
    /\ Len(regions) = 2
    /\ Len(fetches) = 2
    /\ fetches[1] = "lt-2"
    /\ Len(trace) = 10

TransformKeepsInputs ==
    pc \in {"transform_launch_templates", "transform_launch_template_versions"}
        => (templates' = templates /\ versions' = versions)
VersionsAsFetched ==
    pc \in {"transform_launch_template_versions", "load_launch_template_versions"}
        => versions = template_versions

====
